---------------------------- MODULE Spec2Model ----------------------------
(***************************************************************************)
(* daaku/go.stats: the StatHat EZKey backends.                            *)
(*                                                                         *)
(* The repository holds four channel-based versions of EZKey:             *)
(*   "lazy"       package stathat (src/unnamed/part_003): the queue and   *)
(*                the consumer are created by startOnce on the first      *)
(*                Count/Record; batches are flushed by goroutines.        *)
(*   "batch"      package stathatbackend, first file of                   *)
(*                src/stathatbackend/stathatbackend.go (lines 1-207):     *)
(*                explicit Start, MaxBatchSize, flushes by goroutines.    *)
(*   "sync"       src/unnamed/part_002 (lines 1-197): explicit Start, the *)
(*                flush is performed inside the consumer loop.            *)
(*   "httpclient" second file of src/stathatbackend/stathatbackend.go     *)
(*                (lines 209-398): as "sync", with go-httpclient.         *)
(*                                                                         *)
(* One behaviour of the model is one EZKey value of one of the versions,  *)
(* its producers (goroutines calling Count/Record), the goroutine calling *)
(* Close, the consumer goroutine (process), the flush goroutines and the  *)
(* remote collector behind the transport.                                 *)
(***************************************************************************)
EXTENDS Integers, Sequences, FiniteSets, TLC

(***************************************************************************)
(* Bounds of the model.                                                    *)
(***************************************************************************)
\* Count/Record calls made in one behaviour.
MaxCalls == 3

\* e.BatchTimeout in clock ticks (the flag default is 10 s).
BatchTimeout == 1

\* e.MaxBatchSize ranges over 1..MaxBatch (the flag defaults are 1000, 500).
MaxBatch == 3

\* e.ChannelSize ranges over 0..MaxChannel (the flag default is 10000).
MaxChannel == 1

(***************************************************************************)
(* Values.                                                                 *)
(***************************************************************************)
Variants == {"lazy", "batch", "sync", "httpclient"}

\* The versions whose process() hands a batch to a flush goroutine.
AsyncVariants == {"lazy", "batch"}

\* The versions that have the MaxBatchSize field.
HasMaxBatchSize == AsyncVariants

Producers == {"p1", "p2"}

\* The nil timer channel (var batchTimeout <-chan time.Time).
NILT == 0 - 1

\* A timer channel whose single value has been received: non-nil, never ready.
SPENT == 0 - 2

\* countStat{Name, Count} and valueStat{Name, Value}, as far as process()
\* and sendBatch can tell them apart: the name, and whether encoding/json
\* can encode the number (a Count is an int, a float64 Value may be NaN).
\* The k-th call of a behaviour uses the stat name k, which makes the events
\* of a behaviour distinct.
countStat(n) == [name |-> n, v |-> "num"]

valueStat(n, x) == [name |-> n, v |-> x]

Values == {"num", "NaN"}

\* What a POST can come to: a response with status 200, a transport error,
\* an undecodable response body, a response with another status.
Outcomes == {"ok", "neterr", "decodeerr", "apierr"}

VARIABLES
  variant,       \* the version of EZKey this behaviour runs
  MaxBatchSize,  \* e.MaxBatchSize
  ChannelSize,   \* e.ChannelSize / e.BufferSize
  made,          \* e.stats is non-nil (make(chan interface{}, ChannelSize) ran)
  stats,         \* the buffer of the channel e.stats
  statsClosed,   \* close(e.stats) has run
  sendq,         \* senders blocked on e.stats, in arrival order
  closed,        \* e.closed: "nil", "open" or "closed"
  ppc,           \* per producer: "idle", "ready", "blocked", "nilblocked",
                 \* "panicked"
  cpc,           \* process(): "none", "select", "flushing", "final", "done"
  batch,         \* batch.Data of process()
  batchTimeout,  \* batchTimeout of process(): NILT, SPENT, or ticks to expiry
  flushes,       \* every call of sendBatchLog / inline flush, in call order
  kpc,           \* the caller of Close: "idle", "waiting", "returned", "panicked"
  kpc2,          \* the caller of a second Close: "idle", "waiting", "panicked"
  starts,        \* history: the number of times start / Start has run
  closeErr,      \* what Close returned: "none" (not returned), "nil" or "err"
  ncalls,        \* history: the number of Count/Record calls made
  clock,         \* ticks since the first call, saturating at BatchTimeout
  late,          \* history: some call was made BatchTimeout or more ticks
                 \* after the first one
  atClose        \* history: what close(e.stats) found: the events enqueued
                 \* and not yet handed to a flush, the flushes made so far,
                 \* the number of Count/Record calls that had returned

vars == <<variant, MaxBatchSize, ChannelSize, made, stats, statsClosed, sendq,
          closed, ppc, cpc, batch, batchTimeout, flushes, kpc, closeErr,
          ncalls, clock, late, atClose, kpc2, starts>>

config == <<variant, MaxBatchSize, ChannelSize>>

(***************************************************************************)
(* Construction: an EZKey value with its configuration set, nothing        *)
(* started. The versions without MaxBatchSize never flush on size.         *)
(***************************************************************************)
Init ==
  /\ variant \in Variants
  /\ MaxBatchSize \in IF variant \in HasMaxBatchSize THEN 1..MaxBatch ELSE {0}
  /\ ChannelSize \in 0..MaxChannel
  /\ made = FALSE
  /\ stats = <<>>
  /\ statsClosed = FALSE
  /\ sendq = <<>>
  /\ closed = "nil"
  /\ ppc = [p \in Producers |-> "idle"]
  /\ cpc = "none"
  /\ batch = <<>>
  /\ batchTimeout = NILT
  /\ flushes = <<>>
  /\ kpc = "idle"
  /\ kpc2 = "idle"
  /\ starts = 0
  /\ closeErr = "none"
  /\ ncalls = 0
  /\ clock = 0
  /\ late = FALSE
  /\ atClose = [pending |-> <<>>, nflushes |-> 0, returned |-> 0]

(***************************************************************************)
(* start / Start: make the two channels and run process() in a goroutine.  *)
(***************************************************************************)
\* The state of the consumer goroutine once `go e.process()` has run: it
\* waits in its select with an empty batch and a nil timer.
Spawned == "select"

StartEffect ==
  /\ made' = TRUE
  /\ starts' = starts + 1
  /\ closed' = "open"
  /\ cpc' = Spawned

\* Start() of the explicit-Start versions. The model calls it at most once.
Start ==
  /\ variant # "lazy"
  /\ ~made
  /\ StartEffect
  /\ UNCHANGED <<config, stats, statsClosed, sendq, ppc, batch, batchTimeout,
                 flushes, kpc, kpc2, closeErr, ncalls, clock, late, atClose>>

(***************************************************************************)
(* Count / Record: e.stats <- stat.                                        *)
(***************************************************************************)
\* Mutant of HasRoom: the capacity is not enforced.
HasRoom_Unbounded(buf) == TRUE

\* The buffered send completes at once while the buffer has room.
HasRoom(buf) == Len(buf) < ChannelSize

\* e.stats <- e by producer q, on a channel that exists iff isMade.
\* A send on a nil channel blocks for ever; a send on a closed channel
\* panics; a send on a full channel blocks until a receive makes room.
Send(q, e, isMade) ==
  IF ~isMade
    THEN /\ ppc' = [ppc EXCEPT ![q] = "nilblocked"]
         /\ UNCHANGED <<stats, sendq>>
  ELSE IF statsClosed
    THEN /\ ppc' = [ppc EXCEPT ![q] = "panicked"]
         /\ UNCHANGED <<stats, sendq>>
  ELSE IF HasRoom(stats)
    THEN /\ stats' = Append(stats, e)
         /\ ppc' = [ppc EXCEPT ![q] = "idle"]
         /\ UNCHANGED sendq
  ELSE /\ sendq' = Append(sendq, [p |-> q, ev |-> e])
       /\ ppc' = [ppc EXCEPT ![q] = "blocked"]
       /\ UNCHANGED stats

\* Mutant of FirstDo: start run by every Do.
FirstDo_Always == TRUE

\* e.startOnce.Do(e.start) calls start iff no Do of this Once has called it
\* yet, and no Do returns before that call has returned; start is what
\* makes e.stats.
FirstDo == ~made

\* The body shared by Count and Record. In the lazy version
\* e.startOnce.Do(e.start) runs start on the first call, under the Once's
\* mutex, before the send.
Call(p, ev) ==
  /\ ppc[p] = "idle"
  /\ ncalls < MaxCalls
  /\ ev.name = ncalls + 1
  /\ ncalls' = ncalls + 1
  /\ late' = (late \/ clock >= BatchTimeout)
  /\ IF variant = "lazy" /\ FirstDo
       THEN StartEffect
       ELSE UNCHANGED <<made, closed, cpc, starts>>
  /\ Send(p, ev, made \/ variant = "lazy")
  /\ UNCHANGED <<config, statsClosed, batch, batchTimeout, flushes, kpc, kpc2,
                 closeErr, clock, atClose>>

Count(p) == \E n \in 1..MaxCalls : Call(p, countStat(n))

Record(p) == \E n \in 1..MaxCalls, x \in Values : Call(p, valueStat(n, x))

(***************************************************************************)
(* Count / Record of the lazy version in two steps, for the interleavings  *)
(* of concurrent calls: e.startOnce.Do(e.start), then e.stats <- stat.     *)
(***************************************************************************)
\* The calls under way: past startOnce.Do, not yet at the send.
Ready == {p \in Producers : ppc[p] = "ready"}

\* e.startOnce.Do(e.start). sync.Once serializes the calls of Do, so the
\* Do that runs start and the Do calls that wait for it are steps taken
\* one after the other.
StartOnceDo(p) ==
  /\ variant = "lazy"
  /\ ppc[p] = "idle"
  /\ ncalls + Cardinality(Ready) < MaxCalls
  /\ IF FirstDo
       THEN StartEffect
       ELSE UNCHANGED <<made, closed, cpc, starts>>
  /\ ppc' = [ppc EXCEPT ![p] = "ready"]
  /\ UNCHANGED <<config, stats, statsClosed, sendq, batch, batchTimeout,
                 flushes, kpc, kpc2, closeErr, ncalls, clock, late, atClose>>

\* e.stats <- stat, by a caller whose Do has returned.
SendStat(p, ev) ==
  /\ ppc[p] = "ready"
  /\ ev.name = ncalls + 1
  /\ ncalls' = ncalls + 1
  /\ late' = (late \/ clock >= BatchTimeout)
  /\ Send(p, ev, made)
  /\ UNCHANGED <<config, starts, made, closed, cpc, statsClosed, batch,
                 batchTimeout, flushes, kpc, kpc2, closeErr, clock, atClose>>

CountSend(p) == \E n \in 1..MaxCalls : SendStat(p, countStat(n))

RecordSend(p) ==
  \E n \in 1..MaxCalls, x \in Values : SendStat(p, valueStat(n, x))

(***************************************************************************)
(* process(): the consumer loop.                                           *)
(***************************************************************************)
\* json.Marshal(batch) fails iff some value in batch.Data is NaN.
MarshalFails(items) == \E i \in 1..Len(items) : items[i].v = "NaN"

\* One call of sendBatchLog (or one inline flush of the sync versions):
\* the batch it was given, what triggered it, and how far it has got.
\*   "inflight"  the request is with the transport, which has not returned
\*   "ok" "err"  the transport call returned; sendBatch returned nil / error
\*   "skipped"   sendBatch returned nil without a request (empty batch)
\*   "encerr"    sendBatch returned the json.Marshal error without a request
\* A flush goroutine reads nothing but the batch it was given and the
\* configuration, so its steps up to the transport call are taken together
\* with the `go` statement that starts it.
Flush(b, k, s) == [items |-> b, kind |-> k, st |-> s]

\* Mutant of SkipsEmpty: the check of the lazy version left out.
SkipsEmpty_Never(items) == FALSE

\* if len(batch.Data) == 0 { return nil }, which only the lazy version has.
SkipsEmpty(items) == variant = "lazy" /\ Len(items) = 0

\* What sendBatch does with a batch before any request is made: "skipped",
\* "encerr", or "inflight" when the request goes to the transport. The lazy
\* version streams the encoding into the request body (jsonpipe.Encode), so
\* its request reaches the transport whatever the values are.
SendBatchBegin(items) ==
  IF SkipsEmpty(items) THEN "skipped"
  ELSE IF variant # "lazy" /\ MarshalFails(items) THEN "encerr"
  ELSE "inflight"

\* Mutant of ClosedAfterFinal: close(e.closed) left after the loop.
ClosedAfterFinal_Unreached == closed

\* What the consumer does once the final sendBatchLog has returned: the lazy
\* version closes e.closed and returns; the batch version only returns (its
\* close(e.closed) follows the endless for loop and is never reached).
ClosedAfterFinal == IF variant = "lazy" THEN "closed" ELSE closed

\* Mutant of BatchFull: the size of the batch never looked at.
BatchFull_Never(items) == FALSE

\* Mutant of BatchFull: the comparison written > instead of >=.
BatchFull_Strict(items) == Len(items) > MaxBatchSize

\* if len(batch.Data) >= e.MaxBatchSize
BatchFull(items) == Len(items) >= MaxBatchSize

\* Mutant of FreshBatch: the dispatched batch goes on being filled.
FreshBatch_Reused == batch

\* batch = &apiRequest{EZKey: e.Key}: a new request with no data. The sync
\* versions keep the request and set batch.Data = nil.
FreshBatch == <<>>

\* Mutant of ArmTimer: no timer is started.
ArmTimer_Never(t) == t

\* Mutant of ArmTimer: every event starts the timer anew.
ArmTimer_Restart(t) == BatchTimeout

\* if batchTimeout == nil { batchTimeout = time.After(e.BatchTimeout) }
ArmTimer(t) == IF t = NILT THEN BatchTimeout ELSE t

\* The receive `stat, open := <-e.stats` of an open channel: the value at
\* the head of the buffer, or, with an empty buffer, the value of the first
\* blocked sender. A receive that frees a slot completes the send of the
\* first blocked sender.
CanRecv == made /\ (stats # <<>> \/ sendq # <<>>)

RecvValue == IF stats # <<>> THEN Head(stats) ELSE sendq[1].ev

RecvChannel ==
  /\ stats' = IF stats = <<>> THEN <<>>
              ELSE IF sendq = <<>> THEN Tail(stats)
              ELSE Append(Tail(stats), sendq[1].ev)
  /\ sendq' = IF sendq = <<>> THEN sendq ELSE Tail(sendq)
  /\ ppc' = IF sendq = <<>> THEN ppc ELSE [ppc EXCEPT ![sendq[1].p] = "idle"]

\* Mutant of AfterDispatch: the consumer runs the flush itself.
AfterDispatch_Waits == "flushing"

\* Where the consumer is once it has handed a batch over. The statement
\* `go e.sendBatchLog(batch)` returns at once and the loop goes on; the sync
\* versions post the batch in the loop and wait for the response.
AfterDispatch == IF variant \in AsyncVariants THEN "select" ELSE "flushing"

\* Mutant of AppendTo: the event put at the front of the batch.
AppendTo_Front(items, e) == <<e>> \o items

\* batch.Data = append(batch.Data, stat)
AppendTo(items, e) == Append(items, e)

\* case stat, open := <-e.stats, open: append, arm the timer, and in the
\* versions with MaxBatchSize hand a full batch to a flush goroutine.
Recv ==
  /\ cpc = "select"
  /\ CanRecv
  /\ RecvChannel
  /\ LET appended == AppendTo(batch, RecvValue)
     IN IF variant \in HasMaxBatchSize /\ BatchFull(appended)
          THEN /\ flushes' = Append(flushes, Flush(appended, "size", SendBatchBegin(appended)))
               /\ batch' = FreshBatch
               /\ batchTimeout' = NILT
               /\ cpc' = AfterDispatch
          ELSE /\ batch' = appended
               /\ batchTimeout' = ArmTimer(batchTimeout)
               /\ UNCHANGED <<flushes, cpc>>
  /\ UNCHANGED <<config, starts, made, statsClosed, closed, kpc, kpc2, closeErr,
                 ncalls, clock, late, atClose>>

\* Mutant of Drained: a closed channel reports !open at once.
Drained_AtOnce == TRUE

\* A receive from a closed channel yields the buffered values first, and
\* open = false only once the buffer is empty.
Drained == stats = <<>>

\* case stat, open := <-e.stats, !open. The lazy and batch versions call
\* sendBatchLog(batch) in the consumer goroutine, which will not select
\* again: the batch is with that flush, the timer is abandoned. The sync
\* versions return, and what their batch holds is sent nowhere.
RecvClosed ==
  /\ cpc = "select"
  /\ statsClosed
  /\ Drained
  /\ IF variant \in AsyncVariants
       THEN LET st == SendBatchBegin(batch)
            IN /\ flushes' = Append(flushes, Flush(batch, "final", st))
               /\ batch' = <<>>
               /\ IF st = "inflight"
                    THEN cpc' = "final" /\ UNCHANGED closed
                    ELSE cpc' = "done" /\ closed' = ClosedAfterFinal
       ELSE /\ cpc' = "done"
            /\ UNCHANGED <<flushes, closed, batch>>
  /\ batchTimeout' = NILT
  /\ UNCHANGED <<config, starts, made, stats, statsClosed, sendq, ppc, kpc, kpc2, closeErr,
                 ncalls, clock, late, atClose>>

\* case <-batchTimeout. The lazy and batch versions hand the batch to a
\* flush goroutine. The sync versions marshal and post it themselves; when
\* json.Marshal fails they `continue` with batch and batchTimeout as they
\* are, and the channel of time.After never delivers a second value.
Timeout ==
  /\ cpc = "select"
  /\ batchTimeout = 0
  /\ IF variant \in AsyncVariants
       THEN /\ flushes' = Append(flushes, Flush(batch, "timer", SendBatchBegin(batch)))
            /\ batch' = FreshBatch
            /\ batchTimeout' = NILT
            /\ cpc' = AfterDispatch
       ELSE IF MarshalFails(batch)
         THEN /\ batchTimeout' = SPENT
              /\ UNCHANGED <<flushes, batch, cpc>>
         ELSE /\ flushes' = Append(flushes, Flush(batch, "timer", "inflight"))
              /\ batch' = FreshBatch
              /\ batchTimeout' = NILT
              /\ cpc' = AfterDispatch
  /\ UNCHANGED <<config, starts, made, stats, statsClosed, sendq, closed, ppc, kpc, kpc2,
                 closeErr, ncalls, clock, late, atClose>>

(***************************************************************************)
(* sendBatchLog / sendBatch, and the remote collector.                     *)
(***************************************************************************)
\* sendBatch returns nil only for a decoded response with status 200.
SendBatchResult(outcome) == IF outcome = "ok" THEN "ok" ELSE "err"

\* The transport call returns with some outcome. sendBatchLog logs the
\* error and returns nothing, so a failed batch goes nowhere. The consumer
\* goes on when the flush was its own: after the final flush it terminates,
\* after an inline flush of the sync versions it returns to its select.
\* Mutant of ConsumerAfter: a failed flush ends the consumer loop.
ConsumerAfter_StopsOnError(kind, result) ==
  IF kind = "final" \/ result = "err" THEN "done"
  ELSE IF variant \in AsyncVariants THEN cpc
  ELSE "select"

\* Where the consumer is once a flush of the given kind has returned with
\* the given result: it terminates after its final flush, resumes its
\* select after an inline flush of the sync versions (every error path is
\* a log line followed by the next iteration), and is not concerned by a
\* flush goroutine, whose error sendBatchLog only logs.
ConsumerAfter(kind, result) ==
  IF kind = "final" THEN "done"
  ELSE IF variant \in AsyncVariants THEN cpc
  ELSE "select"

FlushReturn(i) ==
  /\ flushes[i].st = "inflight"
  /\ \E outcome \in Outcomes :
       LET result == SendBatchResult(outcome)
       IN /\ flushes' = [flushes EXCEPT ![i].st = result]
          /\ cpc' = ConsumerAfter(flushes[i].kind, result)
  /\ closed' = IF flushes[i].kind = "final" THEN ClosedAfterFinal ELSE closed
  /\ UNCHANGED <<config, starts, made, stats, statsClosed, sendq, ppc, batch,
                 batchTimeout, kpc, kpc2, closeErr, ncalls, clock, late, atClose>>

(***************************************************************************)
(* Close.                                                                  *)
(***************************************************************************)
\* Mutant of ClosePanics: closing a closed channel taken to be harmless.
ClosePanics_NilOnly == ~made

\* close(e.stats): closing a nil channel panics, closing a closed channel
\* panics; otherwise the channel is closed and every blocked sender panics.
ClosePanics == ~made \/ statsClosed

\* Where the caller of Close is after close(e.stats).
AfterCloseStats == IF ClosePanics THEN "panicked" ELSE "waiting"

CloseStats ==
  IF ClosePanics
    THEN UNCHANGED <<statsClosed, sendq, ppc, atClose>>
    ELSE /\ atClose' = [pending |-> batch \o stats, nflushes |-> Len(flushes),
                        returned |-> ncalls - Len(sendq)]
         /\ statsClosed' = TRUE
         /\ sendq' = <<>>
         /\ ppc' = [p \in Producers |->
                      IF ppc[p] = "blocked" THEN "panicked" ELSE ppc[p]]

\* The first call of Close.
Close ==
  /\ kpc = "idle"
  /\ kpc' = AfterCloseStats
  /\ CloseStats
  /\ UNCHANGED <<config, starts, made, stats, closed, cpc, batch, batchTimeout,
                 flushes, closeErr, ncalls, clock, late, kpc2>>

\* A second call of Close, by another goroutine, at any time after a first
\* call that got past close(e.stats).
CloseAgain ==
  /\ kpc \in {"waiting", "returned"}
  /\ kpc2 = "idle"
  /\ kpc2' = AfterCloseStats
  /\ CloseStats
  /\ UNCHANGED <<config, starts, made, stats, closed, cpc, batch, batchTimeout,
                 flushes, closeErr, ncalls, clock, late, kpc>>

\* return <-e.closed (lazy, batch), <-e.closed; return nil (sync versions).
\* Nothing is ever sent on e.closed: the receive completes when the channel
\* is closed, and yields the zero value, a nil error.
ClosedValue == "nil"

\* Mutant of ClosedReady: Close waits for every flush as well.
ClosedReady_AllFlushed ==
  closed = "closed" /\ \A i \in 1..Len(flushes) : flushes[i].st # "inflight"

\* Mutant of ClosedReady: Close does not wait for the consumer.
ClosedReady_NoWait == closed # "nil"

\* The receive <-e.closed can complete.
ClosedReady == closed = "closed"

CloseReturn ==
  /\ kpc = "waiting"
  /\ ClosedReady
  /\ kpc' = "returned"
  /\ closeErr' = ClosedValue
  /\ UNCHANGED <<config, starts, made, stats, statsClosed, sendq, closed, ppc, cpc,
                 batch, batchTimeout, flushes, ncalls, clock, late, atClose,
                 kpc2>>

(***************************************************************************)
(* Time. A tick brings the pending timer one tick nearer to its expiry and *)
(* advances the clock that dates the calls. Nothing forces the consumer to *)
(* run as soon as the timer has expired.                                   *)
(***************************************************************************)
Tick ==
  /\ batchTimeout > 0 \/ (ncalls > 0 /\ clock < BatchTimeout)
  /\ batchTimeout' = IF batchTimeout > 0 THEN batchTimeout - 1 ELSE batchTimeout
  /\ clock' = IF ncalls > 0 /\ clock < BatchTimeout THEN clock + 1 ELSE clock
  /\ UNCHANGED <<config, starts, made, stats, statsClosed, sendq, closed, ppc, cpc,
                 batch, flushes, kpc, kpc2, closeErr, ncalls, late, atClose>>

Next ==
  \/ Start
  \/ \E p \in Producers : Count(p)
  \/ \E p \in Producers : Record(p)
  \/ Recv
  \/ RecvClosed
  \/ Timeout
  \/ \E i \in 1..Len(flushes) : FlushReturn(i)
  \/ Close
  \/ CloseReturn
  \/ Tick

Spec == Init /\ [][Next]_vars

(***************************************************************************)
(* The lazy version alone: it has no Start.                                *)
(***************************************************************************)
InitLazy == Init /\ variant = "lazy"

NextLazy ==
  \/ \E p \in Producers : Count(p)
  \/ \E p \in Producers : Record(p)
  \/ Recv
  \/ RecvClosed
  \/ Timeout
  \/ \E i \in 1..Len(flushes) : FlushReturn(i)
  \/ Close
  \/ CloseReturn
  \/ Tick

LazySpec == InitLazy /\ [][NextLazy]_vars

(***************************************************************************)
(* The lazy version with Count/Record in two steps.                        *)
(***************************************************************************)
NextOnce ==
  \/ \E p \in Producers : StartOnceDo(p)
  \/ \E p \in Producers : CountSend(p)
  \/ \E p \in Producers : RecordSend(p)
  \/ Recv
  \/ RecvClosed
  \/ Timeout
  \/ \E i \in 1..Len(flushes) : FlushReturn(i)
  \/ Close
  \/ CloseReturn
  \/ Tick

OnceSpec == InitLazy /\ [][NextOnce]_vars

(***************************************************************************)
(* Misuse: the four versions with a second goroutine that calls Close      *)
(* after the first call.                                                   *)
(***************************************************************************)
NextMisuse ==
  \/ Next
  \/ CloseAgain

MisuseSpec == Init /\ [][NextMisuse]_vars

\* The Go scheduler runs every runnable goroutine: the consumer takes a
\* ready case of its select, a goroutine blocked on a closed channel
\* resumes. Time passes. That every transport call returns is the
\* hypothesis of the termination claims.
Fairness ==
  /\ WF_vars(Recv \/ RecvClosed \/ Timeout)
  /\ WF_vars(CloseReturn)
  /\ WF_vars(Tick)
  /\ \A i \in 1..(MaxCalls + 1) : WF_vars(i <= Len(flushes) /\ FlushReturn(i))

LazyFairSpec == LazySpec /\ Fairness

(***************************************************************************)
(* The lazy and batch versions, whose timer case only starts a goroutine.  *)
(* The consumer goroutine is scheduled and time passes; nothing is assumed *)
(* of the callers (no further call, no Close) nor of the transport.        *)
(***************************************************************************)
InitAsync == Init /\ variant \in AsyncVariants

ConsumerFairness ==
  /\ WF_vars(Recv \/ RecvClosed \/ Timeout)
  /\ WF_vars(Tick)

AsyncFairSpec == InitAsync /\ [][Next]_vars /\ ConsumerFairness

(***************************************************************************)
(* Vocabulary of the properties.                                           *)
(***************************************************************************)
RECURSIVE FlushedUpTo(_)
\* The items of the first n flushes, in dispatch order.
FlushedUpTo(n) == IF n = 0 THEN <<>> ELSE FlushedUpTo(n - 1) \o flushes[n].items

Flushed == FlushedUpTo(Len(flushes))

\* The stat names of a sequence of events. The k-th call uses the name k,
\* so a sequence is in call order iff its names increase.
Names(items) == [i \in 1..Len(items) |-> items[i].name]

Waiting == [i \in 1..Len(sendq) |-> sendq[i].ev]

\* The request of a flush went to the transport.
Posted(f) == f.st \in {"inflight", "ok", "err"}

\* The events in the channel: buffered, or held by a blocked sender.
Queued == Len(stats) + Len(sendq)

\* A step in which the consumer receives an event from e.stats.
Dequeues == Queued' < Queued /\ statsClosed' = statsClosed

(***************************************************************************)
(* C1. N calls, 1 <= N < MaxBatchSize, all less than BatchTimeout after    *)
(* the first, no Close.                                                    *)
(***************************************************************************)
\* The case of the claim: a lazy or batch EZKey (started before its first
\* call), Close not called, the N = ncalls calls made so far all less than
\* BatchTimeout after the first one, N < MaxBatchSize.
C1_Case ==
  /\ variant \in AsyncVariants
  /\ kpc = "idle"
  /\ \A p \in Producers : ppc[p] # "nilblocked"
  /\ ~late
  /\ 1 <= ncalls /\ ncalls < MaxBatchSize

\* C1 as stated, with "handed to the transport" read as "handed to
\* sendBatchLog": in that case at most one batch is ever dispatched, and
\* the one dispatched holds the N events in call order.
C1_Original ==
  C1_Case =>
    /\ Len(flushes) <= 1
    /\ Len(flushes) = 1 =>
         Names(flushes[1].items) = [i \in 1..ncalls |-> i]

\* C1 as amended: in that case the N events are neither lost, duplicated nor
\* reordered (the dispatched batches, the current batch and the queue hold
\* them in call order); every dispatched batch is non-empty, dispatched by
\* the timer and never by the size threshold, and goes to the transport
\* unless, in the batch version, json.Marshal refuses it; and when the batch
\* dispatched by the timer holds all N events (the consumer had dequeued all
\* of them before it took the timer case) it is the only batch dispatched.
C1_OneBatch ==
  C1_Case =>
    /\ Names(Flushed \o batch \o stats \o Waiting) = [i \in 1..ncalls |-> i]
    /\ \A i \in 1..Len(flushes) :
         /\ flushes[i].kind = "timer"
         /\ flushes[i].items # <<>>
         /\ Posted(flushes[i])
              \/ (variant = "batch" /\ MarshalFails(flushes[i].items))
    /\ (Len(flushes) >= 1 /\ Len(flushes[1].items) = ncalls) =>
         Len(flushes) = 1

\* Reached: two calls in time, both in the one batch the timer dispatched.
C1_Witness ==
  /\ C1_Case
  /\ ncalls = 2
  /\ Len(flushes) = 1
  /\ Names(flushes[1].items) = <<1, 2>>
  /\ Posted(flushes[1])

(***************************************************************************)
(* C2. The size threshold.                                                 *)
(***************************************************************************)
\* C2: in the lazy and batch versions, a step that dequeues an event and
\* brings the batch to MaxBatchSize items dispatches exactly that batch in
\* the same step, whatever the timer says, and leaves an empty batch with
\* no timer; any other dequeue appends to the current batch and dispatches
\* nothing.
C2_SizeFlush ==
  [][(variant \in AsyncVariants /\ Dequeues) =>
       LET appended == Append(batch, RecvValue)
       IN IF Len(appended) >= MaxBatchSize
            THEN /\ Len(flushes') = Len(flushes) + 1
                 /\ flushes'[Len(flushes')].items = appended
                 /\ flushes'[Len(flushes')].kind = "size"
                 /\ batch' = <<>>
                 /\ batchTimeout' = NILT
            ELSE /\ batch' = appended
                 /\ flushes' = flushes]_vars

\* Reached: a batch dispatched on size before any tick of the clock (its
\* timer cannot have expired), and a later event alone in the next batch.
C2_Witness ==
  /\ variant \in AsyncVariants
  /\ clock = 0
  /\ \E i \in 1..Len(flushes) :
       /\ flushes[i].kind = "size"
       /\ Len(flushes[i].items) = MaxBatchSize
       /\ MaxBatchSize >= 2
       /\ Len(batch) = 1
       /\ batch[1].name = flushes[i].items[MaxBatchSize].name + 1

(***************************************************************************)
(* C3. Shutdown of the lazy version with M events pending.                 *)
(***************************************************************************)
RECURSIVE FlushedFrom(_, _)
\* The items of the flushes m+1..n, in dispatch order.
FlushedFrom(m, n) ==
  IF n <= m THEN <<>> ELSE FlushedFrom(m, n - 1) \o flushes[n].items

\* The flushes dispatched after close(e.stats) whose request went to the
\* transport.
PostedAfterClose ==
  {i \in (atClose.nflushes + 1)..Len(flushes) : Posted(flushes[i])}

\* The transport call of a flush has returned, or there was none.
Returned(f) == f.st \in {"ok", "err", "skipped", "encerr"}

\* C3 as stated: once Close has returned, exactly one request was made
\* after Close was called (none if nothing was pending), it held exactly
\* the events pending at that time, and its transport call has returned.
C3_Original ==
  (variant = "lazy" /\ kpc = "returned") =>
    /\ Cardinality(PostedAfterClose) = IF atClose.pending = <<>> THEN 0 ELSE 1
    /\ \A i \in PostedAfterClose :
         /\ flushes[i].items = atClose.pending
         /\ Returned(flushes[i])

\* C3 as amended: once Close has returned, the consumer has terminated with
\* an empty queue; the batches dispatched since Close was called hold the
\* pending events, each once, in order; the last of them, and only it, is
\* the final flush, and its transport call has returned (it made no request
\* iff it was empty). Batches dispatched during the drain by the size
\* threshold or by the timer are flush goroutines like any other. When
\* fewer than MaxBatchSize events were pending and the timer dispatched
\* nothing during the drain, the final flush holds exactly the pending events.
C3_FinalFlush ==
  (variant = "lazy" /\ kpc = "returned") =>
    LET n == Len(flushes)
        drained == {i \in (atClose.nflushes + 1)..(n - 1) : TRUE}
    IN /\ cpc = "done" /\ stats = <<>> /\ sendq = <<>>
       /\ n > atClose.nflushes
       /\ FlushedFrom(atClose.nflushes, n) = atClose.pending
       /\ flushes[n].kind = "final"
       /\ \A i \in 1..(n - 1) : flushes[i].kind # "final"
       /\ Returned(flushes[n])
       /\ (flushes[n].st = "skipped") <=> (flushes[n].items = <<>>)
       /\ (/\ Len(atClose.pending) < MaxBatchSize
           /\ \A i \in drained : flushes[i].kind # "timer")
            => /\ drained = {}
               /\ flushes[n].items = atClose.pending

\* Reached: Close returned after a final flush of the two pending events.
C3_Witness ==
  /\ variant = "lazy" /\ kpc = "returned"
  /\ Len(atClose.pending) = 2
  /\ flushes # <<>>
  /\ flushes[Len(flushes)].kind = "final"
  /\ flushes[Len(flushes)].items = atClose.pending
  /\ flushes[Len(flushes)].st = "ok"

(***************************************************************************)
(* C4. The error of the final flush.                                       *)
(***************************************************************************)
\* C4 as stated: Close returns an error iff the final flush failed.
C4_CloseReturnsFlushError ==
  (variant = "lazy" /\ kpc = "returned") =>
    ((closeErr = "err") <=> (flushes[Len(flushes)].st = "err"))

(***************************************************************************)
(* C5. Termination of the explicit-Start versions.                         *)
(***************************************************************************)
\* C5 as stated, its part a finite run decides: a consumer that has
\* terminated has signalled it on e.closed.
C5_ConsumerSignalsClosed ==
  (variant # "lazy" /\ cpc = "done") => closed = "closed"

(***************************************************************************)
(* C6. Termination of the lazy version.                                    *)
(***************************************************************************)
\* C6: in the lazy version, once close(e.stats) has run, the consumer
\* empties the queue, its final flush returns, it terminates, and Close
\* returns.
C6_CloseReturns ==
  (variant = "lazy" /\ kpc = "waiting") ~>
    (/\ kpc = "returned"
     /\ cpc = "done"
     /\ stats = <<>>
     /\ flushes # <<>>
     /\ flushes[Len(flushes)].kind = "final"
     /\ Returned(flushes[Len(flushes)]))

\* Reached: Close returned although an event was still buffered in the
\* queue, behind the one in the batch, when it was called.
C6_Witness ==
  /\ variant = "lazy" /\ kpc = "returned" /\ cpc = "done"
  /\ Len(atClose.pending) >= 2
  /\ ChannelSize = 1

(***************************************************************************)
(* C7, C8. Empty batches.                                                  *)
(***************************************************************************)
\* C7: the lazy version makes no request for a batch without items; the
\* only batch without items it ever gives to sendBatchLog is the final one,
\* which sendBatch skips.
C7_NoEmptyRequest ==
  variant = "lazy" =>
    \A i \in 1..Len(flushes) :
      /\ Posted(flushes[i]) => flushes[i].items # <<>>
      /\ flushes[i].items = <<>> =>
           flushes[i].kind = "final" /\ flushes[i].st = "skipped"

\* Reached: shutdown with an empty batch, skipped.
C7_Witness ==
  /\ variant = "lazy"
  /\ cpc = "done"
  /\ flushes # <<>>
  /\ flushes[Len(flushes)].items = <<>>
  /\ flushes[Len(flushes)].st = "skipped"

\* C8 as stated: the batch version makes no request for a batch without
\* items, the final batch included.
C8_NoEmptyRequest ==
  variant = "batch" =>
    \A i \in 1..Len(flushes) : Posted(flushes[i]) => flushes[i].items # <<>>

(***************************************************************************)
(* C9. A failed flush.                                                     *)
(***************************************************************************)
\* No event is anywhere twice: the dispatched batches, the current batch
\* and the queue hold distinct events, in call order.
C9_NoEventTwice ==
  variant \in AsyncVariants =>
    LET names == Names(Flushed \o batch \o stats \o Waiting)
    IN \A i, j \in 1..Len(names) : i < j => names[i] < names[j]

\* The step in which the flush i fails changes the state of that flush and
\* nothing else: not the queue, not the current batch or its timer, not the
\* other flushes, and the consumer stays where it was unless the flush was
\* its final one.
C9_FailureStep ==
  \A i \in 1..Len(flushes) :
    (variant \in AsyncVariants /\ flushes[i].st = "inflight"
       /\ Len(flushes') >= i /\ flushes'[i].st = "err") =>
      /\ flushes' = [flushes EXCEPT ![i].st = "err"]
      /\ UNCHANGED <<stats, sendq, statsClosed, batch, batchTimeout, ppc>>
      /\ flushes[i].kind # "final" => cpc' = cpc

\* A failed flush is final: no step sends it again or changes it.
C9_FailedStays ==
  \A i \in 1..Len(flushes) :
    (variant \in AsyncVariants /\ flushes[i].st = "err") =>
      Len(flushes') >= i /\ flushes'[i] = flushes[i]

\* C9: in the lazy and batch versions a failed flush drops its batch and
\* touches nothing else, a failed batch is never sent again, and no event
\* is ever in two batches.
C9_FailedBatchDropped ==
  []C9_NoEventTwice /\ [][C9_FailureStep /\ C9_FailedStays]_vars

\* Reached: a batch failed, and a batch dispatched after it, holding later
\* events only, was accepted by the collector while the consumer runs.
C9_Witness ==
  /\ variant \in AsyncVariants
  /\ cpc = "select"
  /\ \E i, j \in 1..Len(flushes) :
       /\ i < j
       /\ flushes[i].st = "err"
       /\ flushes[j].st = "ok"
       /\ flushes[j].items # <<>>

(***************************************************************************)
(* C10. Backpressure.                                                      *)
(***************************************************************************)
\* A Count/Record call on an open queue: with room in the buffer the event
\* is appended and the call returns (nobody becomes blocked); with a full
\* buffer the buffer is left as it is and the caller blocks, holding its
\* event.
C10_CallStep ==
  (variant = "lazy" /\ ncalls' = ncalls + 1 /\ ~statsClosed) =>
    IF Len(stats) < ChannelSize
      THEN /\ Len(stats') = Len(stats) + 1
           /\ \A i \in 1..Len(stats) : stats'[i] = stats[i]
           /\ stats'[Len(stats')].name = ncalls'
           /\ ppc' = ppc /\ sendq' = sendq
      ELSE /\ stats' = stats
           /\ Len(sendq') = Len(sendq) + 1
           /\ \A i \in 1..Len(sendq) : sendq'[i] = sendq[i]
           /\ sendq'[Len(sendq')].ev.name = ncalls'
           /\ LET p == sendq'[Len(sendq')].p
              IN ppc[p] = "idle" /\ ppc' = [ppc EXCEPT ![p] = "blocked"]

\* A blocked caller stays blocked until the consumer dequeues an event, and
\* then its event enters the buffer (with an unbuffered queue it is the
\* event the consumer takes); or until close(e.stats) makes it panic.
C10_UnblockStep ==
  \A p \in Producers :
    (variant = "lazy" /\ ppc[p] = "blocked" /\ ppc'[p] # "blocked") =>
      \/ /\ ppc'[p] = "idle"
         /\ Dequeues
         /\ sendq[1].p = p
         /\ LET into == IF ChannelSize = 0 THEN Flushed' \o batch' ELSE stats'
            IN into # <<>> /\ into[Len(into)] = sendq[1].ev
      \/ /\ ppc'[p] = "panicked"
         /\ ~statsClosed /\ statsClosed'

\* The buffer never holds more than ChannelSize events, and a caller is
\* blocked only while it is full.
C10_Capacity ==
  variant = "lazy" =>
    /\ Len(stats) <= ChannelSize
    /\ sendq # <<>> => Len(stats) = ChannelSize
    /\ \A p \in Producers :
         ppc[p] = "blocked" <=> \E i \in 1..Len(sendq) : sendq[i].p = p

\* C10: a call returns at once while the queue has room, blocks while it is
\* full until the consumer dequeues, and a full queue loses no event.
C10_Backpressure ==
  []C10_Capacity /\ [][C10_CallStep /\ C10_UnblockStep]_vars

\* Reached: capacity 1, one event buffered, the consumer not having
\* received anything yet, and the second caller blocked.
C10_Witness ==
  /\ variant = "lazy"
  /\ ChannelSize = 1
  /\ Len(stats) = 1
  /\ cpc = "select" /\ batch = <<>> /\ flushes = <<>>
  /\ \E p \in Producers : ppc[p] = "blocked"

(***************************************************************************)
(* C11. Misuse: calls after close(e.stats), a second Close.                *)
(***************************************************************************)
\* The events the consumer has or will have: dispatched, in the current
\* batch, or buffered in the queue.
Accepted == Flushed \o batch \o stats

\* A Count/Record call made once the queue is closed panics and leaves the
\* queue as it was.
C11_CallStep ==
  (statsClosed /\ ncalls' = ncalls + 1) =>
    /\ \E p \in Producers :
         ppc[p] = "idle" /\ ppc' = [ppc EXCEPT ![p] = "panicked"]
    /\ stats' = stats /\ sendq' = sendq

\* close(e.stats) makes every caller blocked on the full queue panic, and
\* its event is not in the queue afterwards.
C11_CloseStep ==
  (~statsClosed /\ statsClosed') =>
    /\ \A p \in Producers :
         ppc'[p] = IF ppc[p] = "blocked" THEN "panicked" ELSE ppc[p]
    /\ sendq' = <<>>
    /\ stats' = stats

\* A second Close panics and changes nothing of the queue.
C11_SecondCloseStep ==
  kpc2' # kpc2 =>
    /\ statsClosed
    /\ kpc2' = "panicked"
    /\ statsClosed' /\ stats' = stats /\ ppc' = ppc /\ kpc' = kpc

\* Once the queue is closed, no event is added to what the consumer has or
\* will have, and no caller is left waiting to send.
C11_NothingAdded ==
  statsClosed => (Accepted' = Accepted /\ sendq = <<>> /\ sendq' = <<>>)

\* C11: a Count/Record call after Close has closed the queue, a call that
\* was blocked on the full queue when Close ran, and a second call of Close
\* each end in a panic, and none of them adds an event to a batch.
C11_MisusePanics ==
  [][/\ C11_CallStep
     /\ C11_CloseStep
     /\ C11_SecondCloseStep
     /\ C11_NothingAdded]_vars

\* Reached: with one event accepted, a caller blocked on the full queue
\* when Close ran (three calls, two of them ended in a panic), and a second
\* Close, have all panicked.
C11_Witness ==
  /\ statsClosed
  /\ ncalls = 3
  /\ Len(Accepted) = 1
  /\ atClose.pending # <<>>
  /\ \A p \in Producers : ppc[p] = "panicked"
  /\ kpc2 = "panicked"

(***************************************************************************)
(* C12. A single Close of the lazy version.                                *)
(***************************************************************************)
\* C12 as stated: in the lazy version the one call of Close, made while no
\* Count/Record call is in progress, does not panic, whatever has been
\* called before it (nothing at all included).
C12_CloseOnceSafe ==
  (variant = "lazy" /\ kpc2 = "idle" /\ \A p \in Producers : ppc[p] = "idle")
    => kpc # "panicked"

(***************************************************************************)
(* C13. The size of a batch.                                               *)
(***************************************************************************)
\* C13: in the versions with MaxBatchSize (>= 1), the batch of a consumer
\* waiting in its select holds fewer than MaxBatchSize events, and every
\* batch handed to a flush, whatever triggered it, holds at most
\* MaxBatchSize events.
C13_BatchBounded ==
  (variant \in HasMaxBatchSize /\ MaxBatchSize >= 1) =>
    /\ cpc = "select" => Len(batch) < MaxBatchSize
    /\ \A i \in 1..Len(flushes) : Len(flushes[i].items) <= MaxBatchSize

\* Reached: a batch dispatched with MaxBatchSize >= 2 events in it, and the
\* consumer back in its select with an event in the next batch.
C13_Witness ==
  /\ variant \in HasMaxBatchSize
  /\ MaxBatchSize >= 2
  /\ cpc = "select"
  /\ Len(batch) = MaxBatchSize - 1
  /\ \E i \in 1..Len(flushes) :
       flushes[i].kind = "size" /\ Len(flushes[i].items) = MaxBatchSize

(***************************************************************************)
(* C14. Order.                                                             *)
(***************************************************************************)
\* The events the consumer has received, in the order of the batches and,
\* within a batch, of their place in it.
Received == Flushed \o batch

\* The names of a sequence of events increase: the events are in call order.
InCallOrder(items) ==
  \A i, j \in 1..Len(items) : i < j => items[i].name < items[j].name

\* A receive puts the event after everything received before it, in the
\* batches dispatched so far or in the current one.
C14_DequeueStep ==
  Dequeues => Received' = Append(Received, RecvValue)

\* No other step, a dispatch included, reorders, removes or adds anything.
C14_OtherStep ==
  ~Dequeues => Received' = Received

\* C14: the concatenation of the dispatched batches, in dispatch order,
\* followed by the current batch, is the sequence of the events in the
\* order they were dequeued, and that order is call order: the events of
\* the callers (of each of them, then) leave in the order of the calls.
C14_OrderKept ==
  /\ [](InCallOrder(Received \o stats \o Waiting))
  /\ [][C14_DequeueStep /\ C14_OtherStep]_vars

\* Reached: three events over two dispatched batches and the current one.
C14_Witness ==
  /\ Len(flushes) = 2
  /\ flushes[1].items # <<>> /\ flushes[2].items # <<>>
  /\ batch # <<>>
  /\ Names(Received) = <<1, 2, 3>>

(***************************************************************************)
(* C15. Exactly once, in the lazy version.                                 *)
(***************************************************************************)
\* The places (flush, index) of the dispatched batches that hold the event
\* of the k-th call.
PlacesOf(k) ==
  {pl \in (1..Len(flushes)) \X (1..MaxCalls) :
     /\ pl[2] <= Len(flushes[pl[1]].items)
     /\ flushes[pl[1]].items[pl[2]].name = k}

\* C15: in the lazy version, once Close has returned, the event of every
\* call that had returned when Close was called is in exactly one
\* dispatched batch, at one place, and nothing is left in the queue or in
\* the current batch.
C15_ConsumedOnce ==
  (variant = "lazy" /\ kpc = "returned") =>
    /\ \A k \in 1..atClose.returned : Cardinality(PlacesOf(k)) = 1
    /\ stats = <<>> /\ batch = <<>>

\* Reached: Close has returned; of three calls that had returned, one event
\* had been dispatched before Close and two were pending (in the current
\* batch or buffered in the queue) when Close was called.
C15_Witness ==
  /\ variant = "lazy" /\ kpc = "returned"
  /\ atClose.returned = 3
  /\ atClose.nflushes = 1
  /\ Len(atClose.pending) = 2
  /\ Len(flushes) = 2
  /\ Len(flushes[2].items) = 2

(***************************************************************************)
(* C16. The debounce timer.                                                *)
(***************************************************************************)
\* A timer is started only by the receive that puts the first event into
\* an empty batch, and it is started with the whole of BatchTimeout.
C16_StartStep ==
  (batchTimeout = NILT /\ batchTimeout' # NILT) =>
    /\ Dequeues
    /\ batch = <<>> /\ Len(batch') = 1
    /\ batchTimeout' = BatchTimeout

\* A pending timer is never restarted or extended: its remaining time only
\* runs down, until the timer is received from or dropped.
C16_NoRestartStep ==
  batchTimeout # NILT =>
    (batchTimeout' = NILT \/ batchTimeout' <= batchTimeout)

\* A dispatch leaves a new, empty batch and no timer.
C16_DispatchStep ==
  Len(flushes') > Len(flushes) => (batch' = <<>> /\ batchTimeout' = NILT)

\* An empty batch has no timer: the only timer there can be is the one
\* started for the current batch.
C16_TimerOfBatch ==
  (cpc = "select" /\ batch = <<>>) => batchTimeout = NILT

\* C16: the timer is started by the first event of a batch, runs for
\* BatchTimeout whatever arrives later, and does not survive the dispatch
\* of its batch.
C16_FixedDelay ==
  /\ []C16_TimerOfBatch
  /\ [][C16_StartStep /\ C16_NoRestartStep /\ C16_DispatchStep]_vars

\* Reached: after a dispatch by the timer, a batch of two events whose own
\* timer has run down.
C16_Witness ==
  /\ cpc = "select"
  /\ \E i \in 1..Len(flushes) : flushes[i].kind = "timer"
  /\ Len(batch) = 2
  /\ batchTimeout = 0

(***************************************************************************)
(* C17. The consumer and the flush goroutines.                             *)
(***************************************************************************)
\* The flushes started with `go` whose transport call has not returned.
InFlightAsync ==
  {i \in 1..Len(flushes) :
     flushes[i].kind \in {"size", "timer"} /\ flushes[i].st = "inflight"}

\* C17: in the lazy and batch versions, while transport calls of size- or
\* timer-triggered flushes have not returned, the consumer is not waiting
\* for them: if it has not met the closed queue it is in its select, where
\* it can receive whatever the queue holds; and a caller is blocked only
\* by a full queue.
C17_ConsumerNotHeld ==
  (variant \in AsyncVariants /\ InFlightAsync # {}) =>
    /\ cpc # "flushing"
    /\ cpc \in {"final", "done"} => statsClosed
    /\ (cpc = "select" /\ CanRecv) => ENABLED Recv
    /\ \A p \in Producers : ppc[p] = "blocked" => Len(stats) = ChannelSize

\* Reached: two flushes in flight, and the consumer in its select with an
\* event, dequeued since, in the current batch.
C17_Witness ==
  /\ variant \in AsyncVariants
  /\ Cardinality(InFlightAsync) = 2
  /\ cpc = "select"
  /\ batch # <<>>

(***************************************************************************)
(* C18. Ownership of a dispatched batch.                                   *)
(***************************************************************************)
\* The step that hands a batch to a flush hands over what the batch holds
\* at that moment (the event just appended included) and leaves the
\* consumer with a new, empty batch.
C18_HandOverStep ==
  Len(flushes') # Len(flushes) =>
    /\ Len(flushes') = Len(flushes) + 1
    /\ flushes'[Len(flushes')].items =
         IF Dequeues THEN Append(batch, RecvValue) ELSE batch
    /\ batch' = <<>>

\* Whatever happens later, events dequeued while the flush is in flight
\* included, the items of a dispatched batch stay what they were.
C18_KeptStep ==
  \A i \in 1..Len(flushes) :
    /\ i <= Len(flushes')
    /\ flushes'[i].items = flushes[i].items

\* The current batch shares no event with a dispatched batch.
C18_Apart ==
  \A k \in 1..Len(batch) : \A i \in 1..Len(flushes) :
    \A j \in 1..Len(flushes[i].items) : batch[k] # flushes[i].items[j]

\* C18: a dispatched batch belongs to its flush: the consumer goes on with
\* a new empty batch and never touches the dispatched one, so the flush
\* sends the items the batch held when it was dispatched.
C18_OwnershipMoves ==
  /\ [](variant \in AsyncVariants => C18_Apart)
  /\ [][C18_HandOverStep /\ C18_KeptStep]_vars

\* Reached: a flush in flight with the one event its batch held, and two
\* events dequeued since then in the current batch.
C18_Witness ==
  /\ variant \in AsyncVariants
  /\ Len(flushes) = 1
  /\ flushes[1].st = "inflight"
  /\ Names(flushes[1].items) = <<1>>
  /\ Names(batch) = <<2, 3>>

(***************************************************************************)
(* C19. What Close waits for.                                              *)
(***************************************************************************)
\* Close returns in a step that finds the consumer terminated and its final
\* flush, the last one, returned.
C19_ReturnStep ==
  (variant = "lazy" /\ kpc = "waiting" /\ kpc' = "returned") =>
    /\ cpc = "done"
    /\ flushes # <<>>
    /\ flushes[Len(flushes)].kind = "final"
    /\ Returned(flushes[Len(flushes)])

\* Once the consumer has terminated, a waiting Close can return, whatever
\* the state of the flushes started with `go`.
C19_NotAwaited ==
  (variant = "lazy" /\ kpc = "waiting" /\ cpc = "done") => ENABLED CloseReturn

\* C19: in the lazy version Close returns when, and as soon as, the consumer
\* has made its final flush and terminated; it waits for no size- or
\* timer-triggered flush, dispatched before Close or during the drain.
C19_WaitsOnlyForFinal ==
  /\ []C19_NotAwaited
  /\ [][C19_ReturnStep]_vars

\* Reached: Close has returned, and two flushes are still in flight, one
\* dispatched before Close was called and one during the drain.
C19_Witness ==
  /\ variant = "lazy" /\ kpc = "returned"
  /\ \E i \in InFlightAsync : i <= atClose.nflushes
  /\ \E i \in InFlightAsync : i > atClose.nflushes

(***************************************************************************)
(* C20. start runs once.                                                   *)
(***************************************************************************)
\* start has run at most once; the queue and the consumer exist iff it has
\* run; a caller past its Do, or blocked in its send, has the queue.
C20_OneQueue ==
  variant = "lazy" =>
    /\ starts <= 1
    /\ made <=> starts = 1
    /\ cpc # "none" <=> starts = 1
    /\ \A p \in Producers : ppc[p] \in {"ready", "blocked"} => made

\* The step that runs start is the Do of a first call: it makes the empty
\* queue, starts the one consumer, and sends nothing.
C20_StartStep ==
  starts' # starts =>
    /\ starts = 0 /\ starts' = 1
    /\ ~made /\ cpc = "none"
    /\ made' /\ cpc' = "select" /\ stats' = <<>> /\ sendq' = <<>>
    /\ ncalls' = ncalls

\* Every send is made by a caller whose Do has returned, on the queue that
\* start made, and no send makes another one.
C20_SendStep ==
  ncalls' # ncalls =>
    /\ made /\ starts = 1 /\ starts' = 1
    /\ \E p \in Producers : ppc[p] = "ready" /\ ppc'[p] # "ready"

\* C20: in the lazy version, however the first calls of the callers
\* interleave, start runs exactly once, before any send, and every send is
\* on the queue it made.
C20_StartOnce ==
  /\ []C20_OneQueue
  /\ [][C20_StartStep /\ C20_SendStep]_vars

\* Reached: the first calls of both callers under way at once, both past
\* their Do, nothing sent yet, and start has run once.
C20_Witness ==
  /\ variant = "lazy"
  /\ ncalls = 0
  /\ \A p \in Producers : ppc[p] = "ready"
  /\ starts = 1

(***************************************************************************)
(* C21. A batch that cannot be serialized, in the versions that flush      *)
(* inside the consumer loop.                                               *)
(***************************************************************************)
\* C21 as stated: in the versions that flush inside the consumer loop, a
\* timer expiry whose serialization fails drops the batch, and the consumer
\* goes on so that events dequeued afterwards are flushed at a later timer
\* expiry: whenever the consumer waits in its select with events in its
\* batch, a timer that will still fire is pending for them.
C21_FailedBatchDropped ==
  (variant \notin AsyncVariants /\ cpc = "select" /\ batch # <<>>)
    => batchTimeout \in 0..BatchTimeout

(***************************************************************************)
(* C22. The timer and the batch of the lazy and batch versions.            *)
(***************************************************************************)
\* The timer is pending: started and not yet received from (it may have
\* expired already).
TimerPending == batchTimeout \in 0..BatchTimeout

\* Whenever the consumer waits in its select, the timer is pending iff the
\* batch holds an event.
C22_PendingIffNonEmpty ==
  (variant \in AsyncVariants /\ cpc = "select") => (TimerPending <=> batch # <<>>)

\* No batch dispatched by a timer expiry is empty.
C22_TimerBatchNonEmpty ==
  variant \in AsyncVariants =>
    \A i \in 1..Len(flushes) : flushes[i].kind = "timer" => flushes[i].items # <<>>

\* The timer of a batch expires at most BatchTimeout after the first event
\* of the batch was put into it (C16 shows it is never restarted). Once it
\* has expired the consumer leaves it only by dispatching the whole batch:
\* by the timer case, or by a receive that fills the batch or finds the
\* queue closed.
C22_ExpiryStep ==
  (variant \in AsyncVariants /\ cpc = "select" /\ batchTimeout = 0
     /\ batchTimeout' # 0)
    => /\ batch # <<>>
       /\ Len(flushes') = Len(flushes) + 1
       /\ SubSeq(flushes'[Len(flushes')].items, 1, Len(batch)) = batch
       /\ batch' = <<>>

\* The events of the batch leave it only together, into a dispatch.
C22_LeaveStep ==
  (variant \in AsyncVariants /\ batch # <<>>
     /\ ~(Len(batch') >= Len(batch) /\ SubSeq(batch', 1, Len(batch)) = batch))
    => /\ Len(flushes') = Len(flushes) + 1
       /\ SubSeq(flushes'[Len(flushes')].items, 1, Len(batch)) = batch
       /\ batch' = <<>>

\* A batch that holds events is dispatched, with no further call and no
\* Close needed for it: the consumer runs and time passes, nothing more.
C22_Dispatched ==
  (variant \in AsyncVariants /\ batch # <<>>) ~> (batch = <<>>)

\* C22: in the lazy and batch versions, at the select the timer is pending
\* iff the batch is non-empty; a timer expiry never dispatches an empty
\* batch; and every dequeued event is dispatched once the timer started by
\* the first event of its batch, BatchTimeout long, has expired, even if no
\* further event arrives and Close is never called.
C22_TimerCoversBatch ==
  /\ []C22_PendingIffNonEmpty
  /\ []C22_TimerBatchNonEmpty
  /\ [][C22_ExpiryStep /\ C22_LeaveStep]_vars
  /\ C22_Dispatched

\* Reached: with Close never called and no call in progress, a single event
\* was dequeued, its timer ran down, and the expiry dispatched it.
C22_Witness ==
  /\ variant \in AsyncVariants
  /\ kpc = "idle" /\ kpc2 = "idle"
  /\ \A p \in Producers : ppc[p] = "idle"
  /\ ncalls = 1
  /\ cpc = "select" /\ batch = <<>> /\ batchTimeout = NILT
  /\ Len(flushes) = 1
  /\ flushes[1].kind = "timer"
  /\ Len(flushes[1].items) = 1

=============================================================================
